---- MODULE Spec2Model ----
(***************************************************************************)
(* A model of source_acceptance_test/utils/json_schema_helper.py:          *)
(* CatalogField, JsonSchemaHelper, get_object_structure and                *)
(* get_expected_schema_structure.                                          *)
(*                                                                         *)
(* JSON values (schemas and records) are trees.  Every value is a record   *)
(* [k, s, items]: k is the Python type ("obj" dict, "arr" list, "str",     *)
(* "num", "null"), s the text of a scalar, items the ordered children, each *)
(* a record [key, val] (key is "" for the elements of a list).  A dict     *)
(* keeps its keys in insertion order, as Python's dict does.  A raised     *)
(* exception is the value Raise(name).                                     *)
(***************************************************************************)
EXTENDS Integers, Sequences, FiniteSets, TLC

VARIABLES self_schema, field, call, arg, ret

vars == <<self_schema, field, call, arg, ret>>

-----------------------------------------------------------------------------
(* Bounds of the model *)

MaxDepth == 1

MaxPathLen == 3

MaxNest == 2

MaxBranches == 2

-----------------------------------------------------------------------------
(* JSON values *)

KV(key, val) == [key |-> key, val |-> val]

Obj(items) == [k |-> "obj", s |-> "", items |-> items]

Arr(elems) == [k |-> "arr", s |-> "", items |-> [i \in DOMAIN elems |-> KV("", elems[i])]]

Str(s) == [k |-> "str", s |-> s, items |-> <<>>]

Num(s) == [k |-> "num", s |-> s, items |-> <<>>]

Null == [k |-> "null", s |-> "", items |-> <<>>]

Raise(err) == [k |-> "raise", s |-> err, items |-> <<>>]

Unset == [k |-> "unset", s |-> "", items |-> <<>>]

IsRaise(n) == n.k = "raise"

IsDict(n) == n.k = "obj"

IsList(n) == n.k = "arr"

Keys(n) == {n.items[i].key : i \in DOMAIN n.items}

(* `key in node` for a dict *)
In(key, n) == IsDict(n) /\ key \in Keys(n)

(* node[key]: KeyError on a dict without the key, TypeError on a list or a
   scalar indexed by a string; an exception already raised propagates *)
Index(n, key) ==
    IF IsRaise(n) THEN n
    ELSE IF ~IsDict(n) THEN Raise("TypeError")
    ELSE IF key \notin Keys(n) THEN Raise("KeyError")
    ELSE n.items[CHOOSE i \in DOMAIN n.items : n.items[i].key = key].val

(* All sequences over S of length at most n *)
SeqsUpTo(S, n) == UNION {[1..m -> S] : m \in 0..n}

-----------------------------------------------------------------------------
(* JsonSchemaHelper.get_ref and get_property *)

Pointers == {"#/definitions/D1", "#/definitions/D2", "#/definitions/D3"}

(* str.split("/") on the pointers the schemas of the model carry *)
SplitSlash(p) ==
    CASE p = "#/definitions/D1" -> <<"#", "definitions", "D1">>
      [] p = "#/definitions/D2" -> <<"#", "definitions", "D2">>
      [] p = "#/definitions/D3" -> <<"#", "definitions", "D3">>
      [] OTHER -> <<p>>

RECURSIVE Descend(_, _)
(* for segment in segments: node = node[segment] *)
Descend(node, segments) ==
    IF segments = <<>> THEN node
    ELSE Descend(Index(node, Head(segments)), Tail(segments))

(* a descent that does not discard the leading root marker "#" *)
get_ref_keep_marker(schema, pointer) == Descend(schema, SplitSlash(pointer))

(* node = self._schema; for segment in path.split("/")[1:]: node = node[segment] *)
get_ref(schema, pointer) == Descend(schema, Tail(SplitSlash(pointer)))

RECURSIVE PropertyLoop(_, _, _)
(* the loop of get_property: one $ref hop on the current node, then
   node["properties"][segment] *)
PropertyLoop(schema, node, path) ==
    IF path = <<>> \/ IsRaise(node) THEN node
    ELSE LET hop == IF In("$ref", node)
                    THEN get_ref(schema, Index(node, "$ref").s)
                    ELSE node
         IN PropertyLoop(schema, Index(Index(hop, "properties"), Head(path)), Tail(path))

get_property(schema, path) == PropertyLoop(schema, schema, path)

-----------------------------------------------------------------------------
(* The schemas and paths the navigator is called with *)

PropNames == {"a", "b"}

Leaf == Obj(<<KV("type", Str("string"))>>)

RefNode(p) == Obj(<<KV("$ref", Str(p))>>)

ObjNode(n) ==
    Obj(<<KV("type", Str("object")),
          KV("properties", Obj(<<KV("a", n), KV("b", Leaf)>>))>>)

RECURSIVE PropNodes(_)
PropNodes(d) ==
    IF d = 0 THEN {Leaf} \cup {RefNode(p) : p \in Pointers}
    ELSE PropNodes(d - 1) \cup {ObjNode(n) : n \in PropNodes(d - 1)}

Definitions(d1, d2) == KV("definitions", Obj(<<KV("D1", d1), KV("D2", d2)>>))

NavSchemas ==
    {Obj(<<Definitions(d1, d2), KV("type", Str("object")),
           KV("properties", Obj(<<KV("a", n), KV("b", Leaf)>>))>>) :
        n \in PropNodes(MaxDepth), d1 \in PropNodes(MaxDepth), d2 \in PropNodes(0)}
    \cup
    {Obj(<<Definitions(d1, d2), KV("$ref", Str(p))>>) :
        d1 \in PropNodes(MaxDepth), d2 \in PropNodes(0), p \in Pointers}

NavPaths == SeqsUpTo(PropNames, MaxPathLen)

-----------------------------------------------------------------------------
(* Operations *)

Init ==
    /\ self_schema = Unset
    /\ field = Unset
    /\ call = "none"
    /\ arg = <<>>
    /\ ret = Unset

(* JsonSchemaHelper.__init__ *)
NewHelper(S) ==
    /\ call = "none"
    /\ \E schema \in S :
        /\ self_schema' = schema
        /\ call' = "JsonSchemaHelper"
    /\ UNCHANGED <<field, arg, ret>>

NewNavHelper == NewHelper(NavSchemas)

GetProperty ==
    /\ call = "JsonSchemaHelper"
    /\ self_schema \in NavSchemas
    /\ \E path \in NavPaths :
        /\ call' = "get_property"
        /\ arg' = path
        /\ ret' = get_property(self_schema, path)
    /\ UNCHANGED <<self_schema, field>>

NextNav == NewNavHelper \/ GetProperty

SpecNav == Init /\ [][NextNav]_vars

-----------------------------------------------------------------------------
(* C1 *)

IsRef(n) == In("$ref", n)

(* the node a local pointer #/definitions/<name> designates *)
Target(schema, node) ==
    LET name == CHOOSE d \in {"D1", "D2", "D3"} :
                    Index(node, "$ref").s = "#/definitions/" \o d
    IN Index(Index(schema, "definitions"), name)

RECURSIVE Resolve(_, _, _)
(* the target of a $ref node, following chains of $ref; a cycle is an error *)
Resolve(schema, node, fuel) ==
    IF ~IsRef(node) THEN node
    ELSE IF fuel = 0 THEN Raise("RefCycle")
    ELSE Resolve(schema, Target(schema, node), fuel - 1)

Inlined(schema, node) == Resolve(schema, node, 3)

RECURSIVE Literal(_, _)
(* the node a path ends on in the ref-inlined schema, before that node's own
   $ref (if it is one) is replaced *)
Literal(schema, path) ==
    IF path = <<>> THEN schema
    ELSE LET front == SubSeq(path, 1, Len(path) - 1)
         IN Index(Index(Inlined(schema, Literal(schema, front)), "properties"),
                  path[Len(path)])

(* the node a path ends on in the ref-inlined schema *)
InlinedNode(schema, path) == Inlined(schema, Literal(schema, path))

ValidInlined(schema, path) == ~IsRaise(InlinedNode(schema, path))

(* no $ref met on the way down targets another $ref *)
NoRefChain(schema, path) ==
    \A m \in 0..(Len(path) - 1) :
        LET n == Literal(schema, SubSeq(path, 1, m))
        IN IsRef(n) => ~IsRef(Target(schema, n))

(* C1 as claimed: for every path valid in the ref-inlined schema,
   get_property returns the node of the ref-inlined schema, also when the
   path ends on a $ref and when a $ref targets a $ref; the empty path gives
   the root unchanged *)
C1_Original ==
    (call = "get_property" /\ ValidInlined(self_schema, arg)) =>
        ret = IF arg = <<>> THEN self_schema ELSE InlinedNode(self_schema, arg)

(* C1 amended: for every path valid in the ref-inlined schema along which no
   $ref targets another $ref, get_property returns the node the path ends on
   with that last node's own $ref left unresolved: the node of the
   ref-inlined schema when the path does not end on a $ref, the $ref node
   itself when it does; the empty path gives the root unchanged *)
C1_OneHopPerStep ==
    (call = "get_property" /\ ValidInlined(self_schema, arg)
        /\ NoRefChain(self_schema, arg)) =>
        /\ ret = Literal(self_schema, arg)
        /\ ~IsRef(ret) => ret = InlinedNode(self_schema, arg)
        /\ arg = <<>> => ret = self_schema

C1_Witness ==
    /\ call = "get_property"
    /\ Len(arg) = 3
    /\ ValidInlined(self_schema, arg)
    /\ NoRefChain(self_schema, arg)
    /\ IsRef(Literal(self_schema, <<arg[1]>>))
    /\ ret = Leaf

-----------------------------------------------------------------------------
(* CatalogField *)

DateFormats == {"datetime", "date-time", "date"}

(* set(format_) for a JSON string or a list of JSON strings *)
SetForm(v) == IF IsList(v) THEN {v.items[i].val.s : i \in DOMAIN v.items} ELSE {v.s}

(* self.schema.get("format", self.schema["type"]): the default is evaluated
   before get is called, so a schema without "type" raises KeyError, which is
   caught and leaves format_ = [] *)
detect_formats(schema) ==
    IF IsRaise(Index(schema, "type")) THEN {}
    ELSE SetForm(IF In("format", schema) THEN Index(schema, "format")
                 ELSE Index(schema, "type"))

(* str.startswith("0000-00-00") and str.replace("0000-00-00", "0001-01-01")
   on the texts the records of the model carry *)
ZeroDateRewrite(text) ==
    CASE text = "0000-00-00" -> "0001-01-01"
      [] text = "0000-00-00T00:00:00" -> "0001-01-01T00:00:00"
      [] OTHER -> text

(* pendulum.parse on the texts the records of the model carry *)
pendulum_parse(text) ==
    IF text \in {"0001-01-01", "0001-01-01T00:00:00", "2021-03-04", "2021-03-04T05:06:07"}
    THEN [k |-> "datetime", s |-> text, items |-> <<>>]
    ELSE Raise("ParserError")

parse_value(formats, value) ==
    IF formats \cap DateFormats # {}
    THEN IF value = Null /\ "null" \notin formats THEN Raise("ValueError")
         ELSE IF value.k # "str" THEN Raise("AttributeError")
         ELSE pendulum_parse(ZeroDateRewrite(value.s))
    ELSE value

(* reduce(lambda data, key: data[key], path, record) *)
RecordValue(record, path) == Descend(record, path)

FieldTypes ==
    {Str("string"), Str("null"), Str("date"), Arr(<<Str("string"), Str("null")>>),
     Arr(<<Str("date-time"), Str("null")>>)}

FieldFormats ==
    {Str("date-time"), Str("date"), Str("datetime"), Str("email"),
     Arr(<<Str("date-time"), Str("null")>>)}

FieldSchemas ==
    {Obj(<<>>)}
    \cup {Obj(<<KV("type", t)>>) : t \in FieldTypes}
    \cup {Obj(<<KV("format", f)>>) : f \in FieldFormats}
    \cup {Obj(<<KV("type", t), KV("format", f)>>) : t \in FieldTypes, f \in FieldFormats}

FieldPaths == {<<"created">>, <<"meta", "created">>}

RecordValues ==
    {Null, Num("5"), Str("junk"), Str("0000-00-00"), Str("0000-00-00T00:00:00"),
     Str("2021-03-04"), Str("2021-03-04T05:06:07")}

Records ==
    {Obj(<<KV("created", v), KV("meta", Obj(<<KV("created", w)>>))>>) :
        v \in RecordValues, w \in {Null, Str("2021-03-04")}}

(* CatalogField.__init__ *)
NewField ==
    /\ call = "none"
    /\ \E schema \in FieldSchemas, path \in FieldPaths :
        /\ field' = [schema |-> schema, path |-> path, formats |-> detect_formats(schema)]
        /\ call' = "CatalogField"
    /\ UNCHANGED <<self_schema, arg, ret>>

(* CatalogField.parse; path <<>> stands for the default None *)
Parse ==
    /\ call = "CatalogField"
    /\ \E record \in Records, path \in {<<>>} \cup FieldPaths :
        /\ call' = "parse"
        /\ arg' = [record |-> record,
                   value |-> RecordValue(record, IF path = <<>> THEN field.path ELSE path)]
        /\ ret' = parse_value(field.formats, arg'.value)
    /\ UNCHANGED <<self_schema, field>>

NextField == NewField \/ Parse

SpecField == Init /\ [][NextField]_vars

-----------------------------------------------------------------------------
(* C2 *)

(* C2: the format set of a CatalogField is the set form of the node's format
   whenever format is present (whether or not type is), otherwise the set
   form of its type, and empty only when both are absent *)
C2_FormatSet ==
    call = "CatalogField" =>
        field.formats =
            IF In("format", field.schema) THEN SetForm(Index(field.schema, "format"))
            ELSE IF In("type", field.schema) THEN SetForm(Index(field.schema, "type"))
            ELSE {}

-----------------------------------------------------------------------------
(* C3 *)

(* C3: parse of a null value under a format set with a date format returns
   null unchanged when the set contains "null", and fails with an
   invalid-field-value error (ValueError) when it does not *)
C3_NullDate ==
    (call = "parse" /\ arg.value = Null /\ field.formats \cap DateFormats # {}) =>
        ret = IF "null" \in field.formats THEN Null ELSE Raise("ValueError")

-----------------------------------------------------------------------------
(* JsonSchemaHelper.find_variant_paths *)

UnionKeys == {"oneOf", "anyOf"}

IsContainer(n) == IsDict(n) \/ IsList(n)

(* `item` of `for item in _schema`: the key of a dict, the element itself of
   a list; a key is the JSON string of its text *)
Item(n, i) == IF IsDict(n) THEN Str(n.items[i].key) ELSE n.items[i].val

RECURSIVE traverse_schema(_, _), TraverseItems(_, _, _)

(* the for loop of traverse_schema, from item i on *)
TraverseItems(node, path, i) ==
    IF i > Len(node.items) THEN <<>>
    ELSE LET next_obj == node.items[i].val
         IN (IF IsContainer(next_obj)
             THEN traverse_schema(next_obj, Append(path, Item(node, i)))
             ELSE <<>>)
            \o TraverseItems(node, path, i + 1)

(* a traversal that does not descend below a recorded path *)
traverse_schema_stop(node, path) ==
    IF path # <<>> /\ path[Len(path)] \in {Str(u) : u \in UnionKeys}
    THEN <<path>>
    ELSE TraverseItems(node, path, 1)

(* the variant paths traverse_schema appends, in the order it appends them *)
traverse_schema(node, path) ==
    (IF path # <<>> /\ path[Len(path)] \in {Str(u) : u \in UnionKeys}
     THEN <<path>> ELSE <<>>)
    \o TraverseItems(node, path, 1)

find_variant_paths(schema) == traverse_schema(schema, <<>>)

(* The schemas variant discovery is called with *)

Scalar == Obj(<<KV("type", Str("string"))>>)

Branch(n) == Obj(<<KV("title", Str("t")), KV("b", n)>>)

Union(u, branches) == Obj(<<KV("type", Str("object")), KV(u, Arr(branches))>>)

RECURSIVE UnionNodes(_)
UnionNodes(d) ==
    IF d = 0 THEN {Scalar}
    ELSE UnionNodes(d - 1)
         \cup {Union(u, <<Branch(n)>>) : u \in UnionKeys, n \in UnionNodes(d - 1)}
         \cup {Union(u, <<Branch(n), Branch(Scalar)>>) : u \in UnionKeys, n \in UnionNodes(d - 1)}
         \cup {Union(u, <<Branch(Scalar), Branch(n)>>) : u \in UnionKeys, n \in UnionNodes(d - 1)}

VariantSchemas ==
    {Obj(<<KV("type", Str("object")),
           KV("properties", Obj(<<KV("a", n), KV("c", Scalar)>>))>>) : n \in UnionNodes(MaxNest)}
    \cup
    {Obj(<<KV("oneOf", Str("x")), KV("items", Arr(<<Arr(<<n, n>>), Str("y")>>))>>) :
        n \in UnionNodes(MaxNest)}
    \cup
    {Obj(<<KV("a", n), KV("anyOf", Arr(<<Scalar, n>>))>>) : n \in UnionNodes(MaxNest)}
    \cup
    {Obj(<<Definitions(n, Scalar),
           KV("properties", Obj(<<KV("a", RefNode("#/definitions/D1")), KV("c", n)>>))>>) :
        n \in UnionNodes(MaxNest - 1)}

NewVariantHelper == NewHelper(VariantSchemas)

FindVariantPaths ==
    /\ call = "JsonSchemaHelper"
    /\ call' = "find_variant_paths"
    /\ arg' = <<>>
    /\ ret' = find_variant_paths(self_schema)
    /\ UNCHANGED <<self_schema, field>>

NextVariant == NewVariantHelper \/ FindVariantPaths

SpecVariant == Init /\ [][NextVariant]_vars

-----------------------------------------------------------------------------
(* C4 *)

RECURSIVE Locations(_)
(* the locations of the literal tree: the sequences of child positions that
   lead from the root through mappings and sequences to a mapping or a
   sequence *)
Locations(n) ==
    {<<>>} \cup UNION {{<<i>> \o p : p \in Locations(n.items[i].val)} :
                        i \in {j \in DOMAIN n.items : IsContainer(n.items[j].val)}}

RECURSIVE NodeAt(_, _)
NodeAt(n, loc) == IF loc = <<>> THEN n ELSE NodeAt(n.items[Head(loc)].val, Tail(loc))

Parent(loc) == SubSeq(loc, 1, Len(loc) - 1)

(* the location is the value of a oneOf or anyOf key *)
IsUnionLoc(root, loc) ==
    /\ loc # <<>>
    /\ IsDict(NodeAt(root, Parent(loc)))
    /\ NodeAt(root, Parent(loc)).items[loc[Len(loc)]].key \in UnionKeys

UnionLocs(root) == {loc \in Locations(root) : IsUnionLoc(root, loc)}

IsPrefix(p, q) == Len(p) < Len(q) /\ SubSeq(q, 1, Len(p)) = p

(* depth-first, key-insertion order: a location precedes those below it and
   those below its later siblings *)
Before(p, q) ==
    \/ IsPrefix(p, q)
    \/ \E m \in 1..Len(p) :
        /\ m <= Len(q)
        /\ SubSeq(p, 1, m - 1) = SubSeq(q, 1, m - 1)
        /\ p[m] < q[m]

Rank(root, loc) == 1 + Cardinality({q \in UnionLocs(root) : Before(q, loc)})

(* the path traverse_schema accumulates on its way to a location *)
PathTo(root, loc) ==
    [m \in 1..Len(loc) |-> Item(NodeAt(root, SubSeq(loc, 1, m - 1)), loc[m])]

(* C4: find_variant_paths returns exactly one path per location of the
   literal tree whose last segment is oneOf or anyOf and no other path, in
   depth-first key-insertion order (so an enclosing union precedes a nested
   one), continuing below a match *)
C4_OnePathPerUnion ==
    call = "find_variant_paths" =>
        /\ Len(ret) = Cardinality(UnionLocs(self_schema))
        /\ \A loc \in UnionLocs(self_schema) :
            ret[Rank(self_schema, loc)] = PathTo(self_schema, loc)
        /\ \A p, q \in UnionLocs(self_schema) :
            IsPrefix(p, q) => Rank(self_schema, p) < Rank(self_schema, q)

C4_Witness ==
    /\ call = "find_variant_paths"
    /\ Len(ret) >= 3
    /\ \E p, q \in UnionLocs(self_schema) : IsPrefix(p, q)
    /\ \E p, q \in UnionLocs(self_schema) : ~IsPrefix(p, q) /\ ~IsPrefix(q, p) /\ p # q

-----------------------------------------------------------------------------
(* JsonSchemaHelper.validate_variant_paths *)

(* "/".join(path): the text is kept as the list of its segments; no key of the
   model holds "/" or a glob character, so dpath splits it back into the same
   segments.  The join raises TypeError unless every segment is a str *)
Joinable(path) == \A i \in DOMAIN path : path[i].k = "str"

JoinSlash(path) == [i \in DOMAIN path |-> path[i].s]

(* the position in a list that the text of a decimal index designates, 0 for
   any other text *)
ListPosition(text) ==
    CASE text = "0" -> 1 [] text = "1" -> 2 [] text = "2" -> 3 [] OTHER -> 0

RECURSIVE DpathDescend(_, _)
DpathDescend(node, segments) ==
    IF IsRaise(node) \/ segments = <<>> THEN node
    ELSE IF IsDict(node) THEN DpathDescend(Index(node, Head(segments)), Tail(segments))
    ELSE IF IsList(node) /\ ListPosition(Head(segments)) \in DOMAIN node.items
         THEN DpathDescend(node.items[ListPosition(Head(segments))].val, Tail(segments))
    ELSE Raise("KeyError")

(* dpath.util.get(obj, "/".join(path)): the one value the glob matches,
   KeyError when it matches none *)
dpath_get(obj, path) ==
    IF ~Joinable(path) THEN Raise("TypeError")
    ELSE IF Len(path) = 0 THEN Raise("KeyError")
    ELSE DpathDescend(obj, JoinSlash(path))

(* get_top_level_item followed by the replacement of a container that
   carries $ref by definitions[<trailing name of the pointer>] *)
top_level_obj(schema, variant_path) ==
    LET item == dpath_get(schema, SubSeq(variant_path, 1, Len(variant_path) - 1))
    IN IF In("$ref", item)
       THEN LET parts == SplitSlash(Index(item, "$ref").s)
            IN Index(Index(schema, "definitions"), parts[Len(parts)])
       ELSE item

(* set(list(v["properties"].keys())) *)
PropertyNames(variant) == Keys(Index(variant, "properties"))

(* set.intersection over variant_props *)
CommonProps(variants) ==
    {p \in PropertyNames(variants.items[1].val) :
        \A i \in DOMAIN variants.items : p \in PropertyNames(variants.items[i].val)}

(* a test that accepts a common property carrying const in some branch only *)
has_const_any_branch(variants) ==
    \E prop \in CommonProps(variants) :
        \E i \in DOMAIN variants.items :
            In("const", Index(Index(variants.items[i].val, "properties"), prop))

(* any([all(["const" in var["properties"][prop] ...]) for prop in common_props]) *)
has_const(variants) ==
    \E prop \in CommonProps(variants) :
        \A i \in DOMAIN variants.items :
            In("const", Index(Index(variants.items[i].val, "properties"), prop))

(* One iteration of the loop over variant_paths: the exception it raises ("" if
   none) and the rules whose check it began, in order *)
validate_path(schema, variant_path) ==
    LET top == top_level_obj(schema, variant_path)
        variants == dpath_get(schema, variant_path)
    IN IF IsRaise(top) THEN [raised |-> top.s, rules |-> <<>>]
       ELSE IF Index(top, "type") # Str("object")
       THEN [raised |-> "AssertionError: top-level type", rules |-> <<"container-type">>]
       ELSE IF IsRaise(variants)
       THEN [raised |-> variants.s, rules |-> <<"container-type">>]
       ELSE IF \E i \in DOMAIN variants.items : ~In("properties", variants.items[i].val)
       THEN [raised |-> "AssertionError: item without properties",
             rules |-> <<"container-type", "branch-shape">>]
       ELSE IF Len(variants.items) = 0
       THEN [raised |-> "TypeError",
             rules |-> <<"container-type", "branch-shape", "discriminant">>]
       ELSE IF CommonProps(variants) = {}
       THEN [raised |-> "AssertionError: no common property",
             rules |-> <<"container-type", "branch-shape", "discriminant">>]
       ELSE IF ~has_const(variants)
       THEN [raised |-> "AssertionError: no const keyword",
             rules |-> <<"container-type", "branch-shape", "discriminant">>]
       ELSE [raised |-> "", rules |-> <<"container-type", "branch-shape", "discriminant">>]

Checks(i, rules) == [m \in DOMAIN rules |-> [path |-> i, rule |-> rules[m]]]

RECURSIVE ValidateLoop(_, _, _)

(* a loop that goes on to the later paths after a failure and reports the
   first failure at the end *)
ValidateLoopCollecting(schema, variant_paths, i) ==
    IF i > Len(variant_paths) THEN [raised |-> "", checks |-> <<>>]
    ELSE LET one == validate_path(schema, variant_paths[i])
             rest == ValidateLoop(schema, variant_paths, i + 1)
         IN [raised |-> IF one.raised # "" THEN one.raised ELSE rest.raised,
             checks |-> Checks(i, one.rules) \o rest.checks]

(* for variant_path in variant_paths, from the i-th on: the exception that
   ends the call ("" when it returns) and the checks begun *)
ValidateLoop(schema, variant_paths, i) ==
    IF i > Len(variant_paths) THEN [raised |-> "", checks |-> <<>>]
    ELSE LET one == validate_path(schema, variant_paths[i])
         IN IF one.raised # ""
            THEN [raised |-> one.raised, checks |-> Checks(i, one.rules)]
            ELSE LET rest == ValidateLoop(schema, variant_paths, i + 1)
                 IN [raised |-> rest.raised, checks |-> Checks(i, one.rules) \o rest.checks]

validate_variant_paths(schema, variant_paths) == ValidateLoop(schema, variant_paths, 1)

(* The schemas and path lists validation is called with *)

Prop(name, keyword, value) == KV(name, Obj(<<KV(keyword, Str(value))>>))

Properties(props) == Obj(<<KV("properties", Obj(props))>>)

BranchKinds ==
    {Properties(<<Prop("mode", "const", "a")>>),
     Properties(<<Prop("mode", "const", "b"), Prop("extra", "type", "string")>>),
     Properties(<<Prop("mode", "type", "string")>>),
     Properties(<<Prop("kind", "const", "k")>>),
     Properties(<<Prop("mode", "type", "string"), Prop("kind", "const", "k")>>),
     Obj(<<KV("type", Str("string"))>>)}

BranchLists == UNION {[1..m -> BranchKinds] : m \in 0..MaxBranches}

ContainerHeads ==
    {<<KV("type", Str("object"))>>,
     <<KV("type", Str("string"))>>,
     <<KV("title", Str("untyped"))>>,
     <<KV("$ref", Str("#/definitions/D1"))>>,
     <<KV("$ref", Str("#/definitions/D2")), KV("type", Str("object"))>>,
     <<KV("$ref", Str("#/definitions/D3"))>>}

Containers ==
    {Obj(h \o <<KV(u, Arr(bs))>>) : h \in ContainerHeads, u \in {"oneOf"}, bs \in BranchLists}

GoodBranches ==
    <<Properties(<<Prop("mode", "const", "a")>>), Properties(<<Prop("mode", "const", "b")>>)>>

SecondContainers ==
    {Obj(<<KV("type", Str("object")), KV("anyOf", Arr(GoodBranches))>>),
     Obj(<<KV("type", Str("array")), KV("anyOf", Arr(GoodBranches))>>),
     Obj(<<KV("type", Str("object")), KV("anyOf", Arr(<<Obj(<<KV("type", Str("string"))>>)>>))>>),
     Obj(<<KV("type", Str("object")),
           KV("anyOf", Arr(<<Properties(<<Prop("mode", "type", "string")>>)>>))>>)}

ValidateSchemas ==
    {Obj(<<Definitions(Obj(<<KV("type", Str("object"))>>), Obj(<<KV("type", Str("string"))>>)),
           KV("type", Str("object")),
           KV("properties", Obj(<<KV("x", c), KV("y", c2)>>))>>) :
        c \in Containers, c2 \in SecondContainers}

PathX == <<Str("properties"), Str("x"), Str("oneOf")>>

PathY == <<Str("properties"), Str("y"), Str("anyOf")>>

PathLists == {<<>>, <<PathX>>, <<PathY>>, <<PathX, PathY>>, <<PathY, PathX>>}

NewValidateHelper == NewHelper(ValidateSchemas)

ValidateVariantPaths ==
    /\ call = "JsonSchemaHelper"
    /\ \E variant_paths \in PathLists :
        /\ call' = "validate_variant_paths"
        /\ arg' = variant_paths
        /\ ret' = validate_variant_paths(self_schema, variant_paths)
    /\ UNCHANGED <<self_schema, field>>

NextValidate == NewValidateHelper \/ ValidateVariantPaths

SpecValidate == Init /\ [][NextValidate]_vars

-----------------------------------------------------------------------------
(* C5 *)

(* C5: every segment of every path find_variant_paths returns is a string,
   also for a union nested inside a branch of another union, so that
   re-querying the schema with the path reaches the oneOf/anyOf array at
   which the path was recorded *)
C5_StringSegments ==
    call = "find_variant_paths" =>
        /\ \A i \in DOMAIN ret : \A j \in DOMAIN ret[i] : ret[i][j].k = "str"
        /\ \A loc \in UnionLocs(self_schema) :
            dpath_get(self_schema, ret[Rank(self_schema, loc)]) = NodeAt(self_schema, loc)

-----------------------------------------------------------------------------
(* C6 *)

Texts(path) == [i \in DOMAIN path |-> path[i].s]

(* the container of a variant path: the node one level above the array,
   replaced by definitions[<trailing name>] when it carries $ref *)
ContainerOf(schema, vp) ==
    LET c == Descend(schema, Texts(Parent(vp)))
    IN IF IsRef(c) THEN Target(schema, c) ELSE c

BranchesOf(schema, vp) ==
    LET array == Descend(schema, Texts(vp))
    IN [i \in DOMAIN array.items |-> array.items[i].val]

ContainerTypeRule(schema, vp) ==
    LET c == ContainerOf(schema, vp)
    IN In("type", c) /\ Index(c, "type") = Str("object")

BranchShapeRule(schema, vp) ==
    \A i \in DOMAIN BranchesOf(schema, vp) : In("properties", BranchesOf(schema, vp)[i])

NamesOf(branch) == Keys(Index(branch, "properties"))

(* the property names every branch declares *)
CommonNames(branches) ==
    {p \in UNION {NamesOf(branches[i]) : i \in DOMAIN branches} :
        \A i \in DOMAIN branches : p \in NamesOf(branches[i])}

ConstIn(branch, p) == In("const", Index(Index(branch, "properties"), p))

DiscriminantRule(schema, vp) ==
    LET branches == BranchesOf(schema, vp)
    IN /\ CommonNames(branches) # {}
       /\ \E p \in CommonNames(branches) : \A i \in DOMAIN branches : ConstIn(branches[i], p)

Passes(schema, vp) ==
    /\ ContainerTypeRule(schema, vp)
    /\ BranchShapeRule(schema, vp)
    /\ DiscriminantRule(schema, vp)

(* C6: validate_variant_paths completes silently if and only if every given
   path satisfies the container-type rule, the branch-shape rule and the
   discriminant rule (a common property carrying const in every branch);
   otherwise it raises *)
C6_SilentIffRules ==
    call = "validate_variant_paths" =>
        (ret.raised = "" <=> \A i \in DOMAIN arg : Passes(self_schema, arg[i]))

C6_Witness ==
    /\ call = "validate_variant_paths"
    /\ arg = <<PathX, PathY>>
    /\ ret.raised = ""
    /\ Len(BranchesOf(self_schema, PathX)) = 2
    /\ "mode" \in CommonNames(BranchesOf(self_schema, PathX))

-----------------------------------------------------------------------------
(* C7 *)

ConstOf(branch, p) == Index(Index(Index(branch, "properties"), p), "const")

(* some common property carries a const in every branch, with values that
   differ from branch to branch *)
DistinctDiscriminant(schema, vp) ==
    LET branches == BranchesOf(schema, vp)
    IN \E p \in CommonNames(branches) :
        /\ \A i \in DOMAIN branches : ConstIn(branches[i], p)
        /\ \A i, j \in DOMAIN branches :
            i # j => ConstOf(branches[i], p) # ConstOf(branches[j], p)

(* C7: validation enforces a distinct const value per branch: it completes
   silently only if every given union has a common property whose const
   values differ from branch to branch *)
C7_DistinctConst ==
    (call = "validate_variant_paths" /\ ret.raised = "") =>
        \A i \in DOMAIN arg : DistinctDiscriminant(self_schema, arg[i])

-----------------------------------------------------------------------------
(* C8 *)

Failing(schema, paths) == {i \in DOMAIN paths : ~Passes(schema, paths[i])}

(* the index of the first failing path, Len + 1 when every path passes *)
FirstFailing(schema, paths) ==
    IF Failing(schema, paths) = {} THEN Len(paths) + 1
    ELSE CHOOSE i \in Failing(schema, paths) : \A j \in Failing(schema, paths) : i <= j

(* the rules checked on one path: in the order container-type, branch-shape,
   discriminant, up to the first that fails; none when the container cannot
   be found *)
RulesTried(schema, vp) ==
    IF IsRaise(ContainerOf(schema, vp)) THEN <<>>
    ELSE IF ~ContainerTypeRule(schema, vp) THEN <<"container-type">>
    ELSE IF ~BranchShapeRule(schema, vp) THEN <<"container-type", "branch-shape">>
    ELSE <<"container-type", "branch-shape", "discriminant">>

ChecksOf(i) == SelectSeq(ret.checks, LAMBDA c : c.path = i)

(* C8 as claimed: a rule failure at one path does not prevent the checks of
   the later paths: every later path whose container can be found is checked *)
C8_Exhaustive ==
    call = "validate_variant_paths" =>
        \A i, j \in DOMAIN arg :
            (i < j /\ ~Passes(self_schema, arg[i]) /\ RulesTried(self_schema, arg[j]) # <<>>)
                => ChecksOf(j) # <<>>

(* C8 amended: the call stops at the first failing path: the paths before it
   are checked in order, each by all three rules; the failing path is checked
   in the order container-type, branch-shape, discriminant up to its first
   failing rule (a container that cannot be found fails before any rule); no
   later path is checked *)
C8_StopsAtFirstFailure ==
    call = "validate_variant_paths" =>
        LET ff == FirstFailing(self_schema, arg)
        IN /\ \A m \in DOMAIN ret.checks : ret.checks[m].path <= ff
           /\ \A j \in DOMAIN arg : j > ff => ChecksOf(j) = <<>>
           /\ \A i \in DOMAIN arg : i <= ff =>
                ChecksOf(i) = [m \in DOMAIN RulesTried(self_schema, arg[i]) |->
                                [path |-> i, rule |-> RulesTried(self_schema, arg[i])[m]]]
           /\ \A m, n \in DOMAIN ret.checks :
                m < n => ret.checks[m].path <= ret.checks[n].path
           /\ ret.raised = "" <=> ff > Len(arg)

C8_Witness ==
    /\ call = "validate_variant_paths"
    /\ Len(arg) = 2
    /\ FirstFailing(self_schema, arg) = 1
    /\ Passes(self_schema, arg[2])
    /\ ret.raised # ""
    /\ Len(ret.checks) = 2

-----------------------------------------------------------------------------
(* get_object_structure *)

RECURSIVE traverse_obj_and_get_path(_, _), TraverseKeys(_, _, _)

(* the dict comprehension over obj.items(), from item i on *)
TraverseKeys(obj, path, i) ==
    IF i > Len(obj.items) THEN <<>>
    ELSE traverse_obj_and_get_path(obj.items[i].val, path \o "/" \o obj.items[i].key)
         \o TraverseKeys(obj, path, i + 1)

(* a traversal for which an empty list is no leaf *)
traverse_obj_any_list(obj, path) ==
    IF IsDict(obj) THEN TraverseKeys(obj, path, 1)
    ELSE IF IsList(obj)
    THEN IF Len(obj.items) > 0
         THEN traverse_obj_and_get_path(obj.items[1].val, path \o "/[]")
         ELSE <<>>
    ELSE <<path>>

(* the paths _traverse_obj_and_get_path appends, in the order it appends them *)
traverse_obj_and_get_path(obj, path) ==
    IF IsDict(obj) THEN TraverseKeys(obj, path, 1)
    ELSE IF IsList(obj) /\ Len(obj.items) > 0
    THEN traverse_obj_and_get_path(obj.items[1].val, path \o "/[]")
    ELSE <<path>>

get_object_structure(obj) == traverse_obj_and_get_path(obj, "")

-----------------------------------------------------------------------------
(* get_expected_schema_structure *)

(* the outcome of a scan: the exception raised ("" if none) and the paths
   appended before it *)
Then(first, second) ==
    IF first.raised # "" THEN first
    ELSE [raised |-> second.raised, pathes |-> first.pathes \o second.pathes]

Done(pathes) == [raised |-> "", pathes |-> pathes]

(* {"type": "object", **s}: the keys of s override the injected type *)
WithObjectType(branch) ==
    IF In("type", branch)
    THEN Obj(<<KV("type", Index(branch, "type"))>>
             \o SelectSeq(branch.items, LAMBDA kv : kv.key # "type"))
    ELSE Obj(<<KV("type", Str("object"))>> \o branch.items)

(* `not x` for a value got with dict.get: absent (None), or an empty dict,
   list or string *)
Falsy(n) ==
    \/ IsRaise(n)
    \/ n = Null
    \/ (IsContainer(n) /\ Len(n.items) = 0)
    \/ n = Str("")

(* subschema.get("type", ["null"]) made a list, as the set of its members *)
SchemaTypes(subschema) ==
    IF In("type", subschema) THEN SetForm(Index(subschema, "type")) ELSE {"null"}

RECURSIVE scan_schema(_, _), ScanBranches(_, _, _), ScanProps(_, _, _)

ScanBranches(branches, path, i) ==
    IF i > Len(branches.items) THEN Done(<<>>)
    ELSE IF ~IsDict(branches.items[i].val) THEN [raised |-> "TypeError", pathes |-> <<>>]
    ELSE Then(scan_schema(WithObjectType(branches.items[i].val), path),
              ScanBranches(branches, path, i + 1))

ScanProps(props, path, i) ==
    IF i > Len(props.items) THEN Done(<<>>)
    ELSE Then(scan_schema(props.items[i].val, path \o "/" \o props.items[i].key),
              ScanProps(props, path, i + 1))

scan_schema(subschema, path) ==
    IF In("oneOf", subschema) \/ In("anyOf", subschema)
    THEN LET branches == IF Falsy(Index(subschema, "oneOf"))
                         THEN Index(subschema, "anyOf")
                         ELSE Index(subschema, "oneOf")
         IN IF ~IsContainer(branches) THEN [raised |-> "TypeError", pathes |-> <<>>]
            ELSE ScanBranches(branches, path, 1)
    ELSE IF "object" \in SchemaTypes(subschema)
    THEN LET props == Index(subschema, "properties")
         IN IF Falsy(props) THEN Done(<<path>>)
            ELSE ScanProps(props, path, 1)
    ELSE IF "array" \in SchemaTypes(subschema)
    THEN scan_schema(IF In("items", subschema) THEN Index(subschema, "items") ELSE Obj(<<>>),
                     path \o "/[]")
    ELSE Done(<<path>>)

(* JsonRef.replace_refs leaves a schema without $ref as it is; the schemas of
   the model that are scanned hold none *)
get_expected_schema_structure(schema) == scan_schema(schema, "")

-----------------------------------------------------------------------------
(* The records and schemas the projector is called with *)

RECURSIVE RecordNodes(_)
RecordNodes(d) ==
    IF d = 0 THEN {Num("1"), Null, Arr(<<>>), Obj(<<>>)}
    ELSE RecordNodes(d - 1)
         \cup {Obj(<<KV("a", v)>>) : v \in RecordNodes(d - 1)}
         \cup {Obj(<<KV("a", v), KV("b", w)>>) : v \in RecordNodes(d - 1), w \in RecordNodes(0)}
         \cup {Arr(<<v>>) : v \in RecordNodes(d - 1)}
         \cup {Arr(<<v, w>>) : v \in RecordNodes(d - 1), w \in {Num("2"), Obj(<<KV("z", Num("3"))>>)}}

ExampleRecord ==
    Obj(<<KV("a", Obj(<<KV("b", Num("1"))>>)), KV("c", Arr(<<Obj(<<KV("d", Num("2"))>>)>>))>>)

StructRecords == RecordNodes(MaxDepth + 1) \cup {ExampleRecord}

TypeOnly(t) == Obj(<<KV("type", t)>>)

ObjectSchema(props) == Obj(<<KV("type", Str("object")), KV("properties", Obj(props))>>)

RECURSIVE StructNodes(_)
StructNodes(d) ==
    IF d = 0
    THEN {TypeOnly(Str("string")), TypeOnly(Arr(<<Str("null"), Str("integer")>>)),
          ObjectSchema(<<>>),
          Obj(<<KV("type", Str("object")), KV("additionalProperties", TypeOnly(Str("string")))>>),
          Obj(<<KV("type", Str("array")), KV("items", TypeOnly(Str("string")))>>)}
    ELSE StructNodes(d - 1)
         \cup {ObjectSchema(<<KV("a", n)>>) : n \in StructNodes(d - 1)}
         \cup {ObjectSchema(<<KV("a", n), KV("b", TypeOnly(Str("string")))>>) :
                n \in StructNodes(d - 1)}
         \cup {Obj(<<KV("type", Arr(<<Str("null"), Str("object")>>)),
                     KV("properties", Obj(<<KV("a", n)>>))>>) : n \in StructNodes(d - 1)}
         \cup {Obj(<<KV("type", Str("array")), KV("items", n)>>) : n \in StructNodes(d - 1)}
         \cup {Obj(<<KV("oneOf", Arr(<<Obj(<<KV("properties", Obj(<<KV("a", n)>>))>>),
                                       TypeOnly(Str("string"))>>))>>) :
                n \in StructNodes(d - 1)}

StructSchemas ==
    StructNodes(MaxDepth + 1)
    \cup {Obj(<<>>), Obj(<<KV("type", Str("array"))>>),
          Obj(<<KV("anyOf", Arr(<<TypeOnly(Str("string")), ObjectSchema(<<>>)>>))>>)}

GetObjectStructure ==
    /\ call = "none"
    /\ \E obj \in StructRecords :
        /\ call' = "get_object_structure"
        /\ arg' = obj
        /\ ret' = get_object_structure(obj)
    /\ UNCHANGED <<self_schema, field>>

GetExpectedSchemaStructure ==
    /\ call = "none"
    /\ \E schema \in StructSchemas :
        /\ call' = "get_expected_schema_structure"
        /\ arg' = schema
        /\ ret' = get_expected_schema_structure(schema)
    /\ UNCHANGED <<self_schema, field>>

NextStruct == GetObjectStructure \/ GetExpectedSchemaStructure

SpecStruct == Init /\ [][NextStruct]_vars

-----------------------------------------------------------------------------
(* C9 *)

(* a mapping or a non-empty sequence: what the traversal expands *)
Expands(n) == IsDict(n) \/ (IsList(n) /\ Len(n.items) > 0)

RECURSIVE LeafLocs(_)
(* the leaves of a record: the sequences of child positions that lead through
   the keys of mappings and the first elements of sequences to a value that
   is neither a mapping nor a non-empty sequence *)
LeafLocs(n) ==
    IF ~Expands(n) THEN {<<>>}
    ELSE UNION {{<<i>> \o p : p \in LeafLocs(n.items[i].val)} :
                    i \in IF IsDict(n) THEN DOMAIN n.items ELSE {1}}

RECURSIVE PathText(_, _)
(* /key for a step through a mapping, /[] for a step through a sequence *)
PathText(n, loc) ==
    IF loc = <<>> THEN ""
    ELSE (IF IsDict(n) THEN "/" \o n.items[Head(loc)].key ELSE "/[]")
         \o PathText(n.items[Head(loc)].val, Tail(loc))

LeafRank(root, loc) == 1 + Cardinality({q \in LeafLocs(root) : Before(q, loc)})

(* C9: get_object_structure returns exactly one entry per leaf of the record
   reachable through keys and first elements, each the leaf's accumulated
   path, in traversal order *)
C9_OneEntryPerLeaf ==
    call = "get_object_structure" =>
        /\ Len(ret) = Cardinality(LeafLocs(arg))
        /\ \A loc \in LeafLocs(arg) : ret[LeafRank(arg, loc)] = PathText(arg, loc)

C9_Witness ==
    /\ call = "get_object_structure"
    /\ arg = ExampleRecord
    /\ ret = <<"/a/b", "/c/[]/d">>

-----------------------------------------------------------------------------
(* C10 *)

RECURSIVE Plain(_)
(* no oneOf/anyOf, no array, no free-form object: every object declares
   properties (possibly none) *)
Plain(schema) ==
    /\ ~In("oneOf", schema) /\ ~In("anyOf", schema)
    /\ "array" \notin SchemaTypes(schema)
    /\ "object" \in SchemaTypes(schema) =>
        /\ In("properties", schema)
        /\ ~In("additionalProperties", schema)
        /\ \A i \in DOMAIN Index(schema, "properties").items :
            Plain(Index(schema, "properties").items[i].val)

RECURSIVE Conforming(_), ConformingItems(_, _)
(* the item lists of the records with every declared property, from the i-th
   property on *)
ConformingItems(props, i) ==
    IF i > Len(props.items) THEN {<<>>}
    ELSE {<<KV(props.items[i].key, v)>> \o rest :
            v \in Conforming(props.items[i].val), rest \in ConformingItems(props, i + 1)}

(* the records that strictly conform to a plain schema: an object with every
   declared property where the schema declares an object, a scalar elsewhere *)
Conforming(schema) ==
    IF "object" \in SchemaTypes(schema)
    THEN {Obj(items) : items \in ConformingItems(Index(schema, "properties"), 1)}
    ELSE {Num("1"), Null}

AsSet(seq) == {seq[i] : i \in DOMAIN seq}

(* C10: for every schema with no oneOf/anyOf, no arrays and no free-form
   objects, the paths of get_expected_schema_structure equal, as a set, the
   paths of get_object_structure for every record that strictly conforms to
   it, also for objects declared with an empty properties mapping *)
C10_RoundTrip ==
    (call = "get_expected_schema_structure" /\ Plain(arg)) =>
        \A record \in Conforming(arg) :
            ret.raised = "" /\ AsSet(ret.pathes) = AsSet(get_object_structure(record))

====
